---------------------------- MODULE Spec2Model ----------------------------
(***************************************************************************)
(* A model of the fabric-ator slicer (src/src/slice.py) and of its web    *)
(* front end (src/src/app.py).                                             *)
(*                                                                         *)
(* Each function of the slicer is modelled on its own group of variables   *)
(* and is exercised by its own specification, whose initial states draw    *)
(* the function's arguments from a bounded set.  The groups that a         *)
(* specification does not exercise stay at their idle values.              *)
(*                                                                         *)
(* The floats of the code are fixed-point numbers here.  The coordinates   *)
(* of a point are integers in units of 1/10; the numbers the code computes *)
(* from them by division (intersection points, distances) are exact        *)
(* fractions <<numerator, denominator>> in lowest terms, in the same unit. *)
(***************************************************************************)
EXTENDS Integers, Sequences, FiniteSets, TLC

VARIABLES
    \* combine_segments_to_polygon
    stitchIn,     \* the value of the argument `segments` when the first
                  \* call was made
    segments,     \* the caller's list object, as it is now
    segs,         \* the working copy  segs = segments.copy()
    polygon,      \* the working polygon
    aliased,      \* polygon is still the very list object segments[0]
    spc,          \* position in the function: "start", "loop", "done"
    stitchCalls,  \* the number of calls made with the caller's list
    stitchFirst,  \* what the first call has returned, once a second is made
    \* generate_perimeter_path
    perimIn,      \* the value of the argument `polygon` when the call was made
    perimPoly,    \* the caller's list object, as it is now
    perimCmds,    \* cmd_arr
    perimIdx,     \* the index of the point the for loop takes next
    ppc,          \* "start", "build", "loop", "done", "raised"
    \* generate_cross_hatching_path
    hatchIn,      \* the argument `polygon`
    hSpacing,     \* the argument `spacing`
    hPoly,        \* the local, closed polygon
    hFam,         \* the hatch set being drawn: 1 (x + y = c) or 2 (y - x = c)
    hC,           \* c
    hInter,       \* the sorted intersections of the last hatch line
    hCmds,        \* cmd_arr
    hpc,          \* "start", "test", "line", "done", "raised"
    \* convert_to_gcode
    gIn,          \* the argument `coordinates`
    gLines,       \* commands: the lines emitted so far
    gPrev,        \* (prev_x, prev_y)
    gIdx,         \* the index of the command the for loop takes next
    gpc,          \* "start", "loop", "done", "raised"
    \* center_polygon
    cIn,          \* the argument `polygon`
    cBedW,        \* the argument `bed_width`
    cBedH,        \* the argument `bed_height`
    cOut,         \* the polygon returned
    cOut2,        \* the polygon returned for the argument cOut
    cpc,          \* "start", "once", "twice", "raised"
    \* read_dxf_polygon
    rEntities,    \* msp: the entities of the drawing, in order
    rIdx,         \* the index of the entity the for loop takes next
    rLines,       \* lines
    rResult,      \* the polygon returned
    rpc,          \* "loop", "stitching", "returned", "raised"
    \* slice_dxf
    slFile,       \* the file at file_path: whether it is there, and its msp
    slSpacing,    \* the argument `spacing`
    slShape,      \* shape
    slCmds,       \* cmd_arr
    slGcode,      \* gcode: the lines returned, joined by newlines
    slErr,        \* the class of the exception raised
    slpc,         \* "start", "read", "perimeter", "hatch", "gcode",
                  \* "returned", "raised"
    \* app.py
    aSession,     \* session['filename']; <<>> is None
    aUploads,     \* UPLOAD_FOLDER: the content of the file of each name
    aTemp,        \* TEMP_FOLDER: the text saved under each name
    aLast         \* the last response, with the file that the request has
                  \* converted and what slice_dxf has returned for it

stitchVars ==
    <<stitchIn, segments, segs, polygon, aliased, spc, stitchCalls, stitchFirst>>
perimVars == <<perimIn, perimPoly, perimCmds, perimIdx, ppc>>

hatchVars == <<hatchIn, hSpacing, hPoly, hFam, hC, hInter, hCmds, hpc>>

gcodeVars == <<gIn, gLines, gPrev, gIdx, gpc>>

centerVars == <<cIn, cBedW, cBedH, cOut, cOut2, cpc>>

readVars == <<rEntities, rIdx, rLines, rResult, rpc>>
sliceVars == <<slFile, slSpacing, slShape, slCmds, slGcode, slErr, slpc>>

appVars == <<aSession, aUploads, aTemp, aLast>>

vars == <<stitchVars, perimVars, hatchVars, gcodeVars, centerVars, readVars,
          sliceVars, appVars>>

\* What the steps of one function leave alone: every other group.
StitchFrame ==
    UNCHANGED <<perimVars, hatchVars, gcodeVars, centerVars,
                readVars, sliceVars, appVars>>
PerimFrame ==
    UNCHANGED <<stitchVars, hatchVars, gcodeVars, centerVars,
                readVars, sliceVars, appVars>>
HatchFrame ==
    UNCHANGED <<stitchVars, perimVars, gcodeVars, centerVars,
                readVars, sliceVars, appVars>>
GcodeFrame ==
    UNCHANGED <<stitchVars, perimVars, hatchVars, centerVars,
                readVars, sliceVars, appVars>>
CenterFrame ==
    UNCHANGED <<stitchVars, perimVars, hatchVars, gcodeVars,
                readVars, sliceVars, appVars>>
ReadFrame ==
    UNCHANGED <<stitchVars, perimVars, hatchVars, gcodeVars,
                centerVars, sliceVars, appVars>>
SliceFrame ==
    UNCHANGED <<stitchVars, perimVars, hatchVars, gcodeVars,
                centerVars, readVars, appVars>>
AppFrame ==
    UNCHANGED <<stitchVars, perimVars, hatchVars, gcodeVars,
                centerVars, readVars, sliceVars>>

-----------------------------------------------------------------------------
(* Generic helpers on sequences and numbers.                               *)

Abs(v) == IF v < 0 THEN -v ELSE v

Range(s) == {s[i] : i \in DOMAIN s}

\* Python  list(reversed(s))
Reverse(s) == [i \in 1..Len(s) |-> s[Len(s) + 1 - i]]

\* Python  s[1:]
DropFirst(s) == IF s = <<>> THEN <<>> ELSE SubSeq(s, 2, Len(s))

\* Python  s[:-1]
DropLast(s) == IF s = <<>> THEN <<>> ELSE SubSeq(s, 1, Len(s) - 1)

\* Python  s.pop(i)  (1-based here): the list without its i-th element
RemoveAt(s, i) == SubSeq(s, 1, i - 1) \o SubSeq(s, i + 1, Len(s))

\* The smallest element of a non-empty set of integers.
SetMin(S) == CHOOSE v \in S : \A w \in S : v <= w

\* The largest element of a non-empty set of integers.
SetMax(S) == CHOOSE v \in S : \A w \in S : w <= v

\* All the orders of the indices 1..k.
Perms(k) == {p \in [1..k -> 1..k] : \A i, j \in 1..k : i # j => p[i] # p[j]}

-----------------------------------------------------------------------------
(* combine_segments_to_polygon                                  slice.py:14 *)
(*                                                                         *)
\* tol (1e-6) is below one unit of the coordinates: |d| < tol holds for the
\* coordinate differences d below one unit.
Tol == 1

\* The number of points of the loop that the arguments are cut from.
NPts == 4

points_equal(p1, p2) == Abs(p1[1] - p2[1]) < Tol /\ Abs(p1[2] - p2[2]) < Tol

\* The k-th point of a simple closed loop of NPts points: along the bottom
\* row from left to right, then back along the top row.
LoopPt(k) ==
    LET h == (NPts + 1) \div 2
    IN  IF k < h THEN <<k, 0>> ELSE <<h - 1 - (k - h), 1>>

\* The points of the loop from its a-th point on, n edges long.
LoopArc(a, n) == [i \in 1..(n + 1) |-> LoopPt((a + i - 1) % NPts)]

\* The loop cut at the points `cuts` (a non-empty set of indices), as the
\* list of its arcs in the order of the loop.
CutLoop(cuts) ==
    LET k == Cardinality(cuts)
        at[i \in 1..k] ==
            IF i = 1 THEN SetMin(cuts)
            ELSE SetMin({c \in cuts : c > at[i - 1]})
        len(i) == IF i < k THEN at[i + 1] - at[i] ELSE at[1] + NPts - at[k]
    IN  [i \in 1..k |-> LoopArc(at[i], len(i))]

\* The elements of s at the indices of `keep`, in their order.
RECURSIVE Filter(_, _)
Filter(s, keep) ==
    IF s = <<>> THEN <<>>
    ELSE LET rest == Filter(DropLast(s), keep)
         IN  IF Len(s) \in keep THEN Append(rest, s[Len(s)]) ELSE rest

\* The argument lists: a loop cut into arcs, each arc in either orientation,
\* the arcs in any order, and any of them left out.
StitchInputs ==
    {<<>>} \cup
    UNION {
        LET base == CutLoop(cuts)
            k == Len(base)
        IN  { Filter([i \in 1..k |-> IF p[i] \in flips
                                      THEN Reverse(base[p[i]])
                                      ELSE base[p[i]]], keep) :
                <<p, flips, keep>> \in Perms(k) \X (SUBSET (1..k)) \X (SUBSET (1..k)) }
        : cuts \in (SUBSET (0..(NPts - 1))) \ {{}} }

StitchInit ==
    /\ stitchIn \in StitchInputs
    /\ segments = stitchIn
    /\ segs = <<>>
    /\ polygon = <<>>
    /\ aliased = FALSE
    /\ spc = "start"
    /\ stitchCalls = 1
    /\ stitchFirst = <<>>

StitchIdle ==
    /\ stitchIn = <<>>
    /\ segments = <<>>
    /\ segs = <<>>
    /\ polygon = <<>>
    /\ aliased = FALSE
    /\ spc = "idle"
    /\ stitchCalls = 1
    /\ stitchFirst = <<>>

\* Which of the four tests of the scan a segment passes first: 0 for none.
ConnectTest(poly, seg) ==
    IF points_equal(poly[Len(poly)], seg[1]) THEN 1
    ELSE IF points_equal(poly[Len(poly)], seg[Len(seg)]) THEN 2
    ELSE IF points_equal(poly[1], seg[1]) THEN 3
    ELSE IF points_equal(poly[1], seg[Len(seg)]) THEN 4
    ELSE 0

\* A splice that keeps the shared point of both lists.
SpliceKeepShared(poly, seg, t) ==
    CASE t = 1 -> poly \o seg
      [] t = 2 -> poly \o Reverse(seg)
      [] t = 3 -> Reverse(seg) \o poly
      [] t = 4 -> seg \o poly

\* The polygon after the splice that test t makes.
Splice(poly, seg, t) ==
    CASE t = 1 -> poly \o DropFirst(seg)
      [] t = 2 -> poly \o Reverse(DropLast(seg))
      [] t = 3 -> Reverse(seg) \o DropFirst(poly)
      [] t = 4 -> DropLast(seg) \o poly

\* The index of the first segment of segs that passes a test: 0 for none.
FirstMatch ==
    LET hits == {i \in DOMAIN segs : ConnectTest(polygon, segs[i]) # 0}
    IN  IF hits = {} THEN 0 ELSE SetMin(hits)

\* slice.py:29-34   the empty argument returns []; otherwise the first
\* segment, the list object itself, becomes the polygon.
StitchCall ==
    /\ spc = "start"
    /\ IF segments = <<>>
       THEN /\ polygon' = <<>>
            /\ segs' = <<>>
            /\ aliased' = FALSE
            /\ spc' = "done"
       ELSE /\ segs' = DropFirst(segments)
            /\ polygon' = segments[1]
            /\ aliased' = TRUE
            /\ spc' = "loop"
    /\ UNCHANGED <<stitchIn, segments, stitchCalls, stitchFirst>>
    /\ StitchFrame

\* slice.py:37-56   one pass of the while loop that finds a segment: the
\* scan stops at the first segment passing a test, splices it and pops it.
\* Tests 1 and 2 extend the polygon object in place, so the caller's first
\* segment grows with it while the polygon is still that object; tests 3
\* and 4 bind polygon to a new list.
StitchConnect ==
    /\ spc = "loop"
    /\ segs # <<>>
    /\ FirstMatch # 0
    /\ LET i == FirstMatch
           t == ConnectTest(polygon, segs[i])
           joined == Splice(polygon, segs[i], t)
       IN  /\ polygon' = joined
           /\ segs' = RemoveAt(segs, i)
           /\ aliased' = (aliased /\ t \in {1, 2})
           /\ segments' = IF aliased /\ t \in {1, 2}
                          THEN [segments EXCEPT ![1] = joined]
                          ELSE segments
    /\ UNCHANGED <<stitchIn, spc, stitchCalls, stitchFirst>>
    /\ StitchFrame

\* slice.py:58-60   a pass that finds no segment leaves the loop.
StitchBreak ==
    /\ spc = "loop"
    /\ segs # <<>>
    /\ FirstMatch = 0
    /\ spc' = "done"
    /\ UNCHANGED <<stitchIn, segments, segs, polygon, aliased, stitchCalls,
                   stitchFirst>>
    /\ StitchFrame

\* slice.py:37,62   the loop ends when no segment is left.
StitchReturn ==
    /\ spc = "loop"
    /\ segs = <<>>
    /\ spc' = "done"
    /\ UNCHANGED <<stitchIn, segments, segs, polygon, aliased, stitchCalls,
                   stitchFirst>>
    /\ StitchFrame

StitchNext == StitchCall \/ StitchConnect \/ StitchBreak \/ StitchReturn

\* slice.py:14-34   the caller keeps the polygon returned and calls again
\* with the same list object.
StitchAgain ==
    /\ spc = "done"
    /\ stitchCalls = 1
    /\ stitchFirst' = polygon
    /\ stitchCalls' = 2
    /\ spc' = "start"
    /\ UNCHANGED <<stitchIn, segments, segs, polygon, aliased>>
    /\ StitchFrame

\* The steps of two calls in a row.
StitchTwiceNext ==
    \/ StitchCall
    \/ StitchConnect
    \/ StitchBreak
    \/ StitchReturn
    \/ StitchAgain

-----------------------------------------------------------------------------
(* Properties of combine_segments_to_polygon.                              *)

\* The undirected edges between consecutive points of a point list.
EdgesOf(pts) == {{pts[i], pts[i + 1]} : i \in 1..(Len(pts) - 1)}

LoopEdges == {{LoopPt(k), LoopPt((k + 1) % NPts)} : k \in 0..(NPts - 1)}

RECURSIVE EdgeCount(_)
EdgeCount(ss) ==
    IF ss = <<>> THEN 0 ELSE (Len(ss[1]) - 1) + EdgeCount(DropFirst(ss))

AllPoints(ss) == UNION {Range(ss[i]) : i \in DOMAIN ss}

\* The segments are open, and together they hold every edge of the loop
\* exactly once and nothing else.
IsSimpleLoop(ss) ==
    /\ ss # <<>>
    /\ \A i \in DOMAIN ss : Len(ss[i]) >= 2
    /\ EdgeCount(ss) = NPts
    /\ UNION {EdgesOf(ss[i]) : i \in DOMAIN ss} = LoopEdges

\* C1 (stitch closure): when the argument is one simple closed loop cut
\* into segments, in any list order and with any orientations, the polygon
\* returned has consumed every segment, holds exactly the points of the
\* argument, ends where it starts, and its consecutive points walk every
\* edge of the loop once.
C1_StitchClosure ==
    (spc = "done" /\ IsSimpleLoop(stitchIn)) =>
        /\ segs = <<>>
        /\ Range(polygon) = AllPoints(stitchIn)
        /\ polygon[1] = polygon[Len(polygon)]
        /\ Len(polygon) = NPts + 1
        /\ EdgesOf(polygon) = LoopEdges

\* A loop of at least three segments has been stitched, and some segment
\* went to the head of the polygon.
C1_Witness ==
    /\ spc = "done"
    /\ IsSimpleLoop(stitchIn)
    /\ Len(stitchIn) >= 3
    /\ ~aliased

\* C12 (stitching leaves its input unchanged): whenever a call of
\* combine_segments_to_polygon has returned, the caller's list and every
\* segment in it hold the points they held before the first call, and a
\* second call with the same list has returned the polygon of the first.
C12_InputUnchanged ==
    spc = "done" =>
        /\ segments = stitchIn
        /\ stitchCalls = 2 => polygon = stitchFirst

-----------------------------------------------------------------------------
(* generate_perimeter_path                                    slice.py:193 *)

\* The modes of a command (x, y, mode).
MOVE == 0
DRAW == 1

\* The largest number of points of an argument polygon.
MaxPerimLen == 4

\* The coordinates an argument point is drawn from.
PerimCoords == {0, 1}

PerimPoints == PerimCoords \X PerimCoords

PerimInputs == UNION {[1..n -> PerimPoints] : n \in 0..MaxPerimLen}

PerimInit ==
    /\ perimIn \in PerimInputs
    /\ perimPoly = perimIn
    /\ perimCmds = <<>>
    /\ perimIdx = 0
    /\ ppc = "start"

PerimIdle ==
    /\ perimIn = <<>>
    /\ perimPoly = <<>>
    /\ perimCmds = <<>>
    /\ perimIdx = 0
    /\ ppc = "idle"

\* A closing step that never appends.
EnsureClosedNever(poly) == poly

\* slice.py:206-207   polygon.append(polygon[0]) unless first and last agree.
EnsureClosed(poly) ==
    IF poly[1] # poly[Len(poly)] THEN Append(poly, poly[1]) ELSE poly

\* slice.py:206   polygon[0] of an empty list raises IndexError.
PerimRaise ==
    /\ ppc = "start"
    /\ perimPoly = <<>>
    /\ ppc' = "raised"
    /\ UNCHANGED <<perimIn, perimPoly, perimCmds, perimIdx>>
    /\ PerimFrame

\* slice.py:206-207   the closing point is appended to the caller's list.
PerimClose ==
    /\ ppc = "start"
    /\ perimPoly # <<>>
    /\ perimPoly' = EnsureClosed(perimPoly)
    /\ ppc' = "build"
    /\ UNCHANGED <<perimIn, perimCmds, perimIdx>>
    /\ PerimFrame

\* slice.py:209   the first command moves to the first point.
PerimFirst ==
    /\ ppc = "build"
    /\ perimCmds' = << <<perimPoly[1][1], perimPoly[1][2], MOVE>> >>
    /\ perimIdx' = 2
    /\ ppc' = "loop"
    /\ UNCHANGED <<perimIn, perimPoly>>
    /\ PerimFrame

\* slice.py:212-213   one pass of the for loop over polygon[1:].
PerimDraw ==
    /\ ppc = "loop"
    /\ perimIdx <= Len(perimPoly)
    /\ perimCmds' = Append(perimCmds,
                           <<perimPoly[perimIdx][1], perimPoly[perimIdx][2], DRAW>>)
    /\ perimIdx' = perimIdx + 1
    /\ UNCHANGED <<perimIn, perimPoly, ppc>>
    /\ PerimFrame

\* slice.py:215
PerimReturn ==
    /\ ppc = "loop"
    /\ perimIdx > Len(perimPoly)
    /\ ppc' = "done"
    /\ UNCHANGED <<perimIn, perimPoly, perimCmds, perimIdx>>
    /\ PerimFrame

PerimNext == PerimRaise \/ PerimClose \/ PerimFirst \/ PerimDraw \/ PerimReturn

-----------------------------------------------------------------------------
(* Properties of generate_perimeter_path.                                  *)

\* The commands that trace a point list: a MOVE to its first point, then a
\* DRAW to each later point, in order.
TracesInOrder(cmds, pts) ==
    /\ Len(cmds) = Len(pts)
    /\ cmds[1] = <<pts[1][1], pts[1][2], MOVE>>
    /\ \A i \in 2..Len(pts) : cmds[i] = <<pts[i][1], pts[i][2], DRAW>>

\* C2 (perimeter completeness): for an argument of n >= 3 points whose
\* first and last points are equal, the result has exactly n commands, a
\* MOVE to point 0 and then a DRAW to each point i in order; for an
\* argument whose first and last points differ, the first point is appended
\* first, so the result has n + 1 commands and ends with a DRAW to point 0.
C2_PerimeterComplete ==
    ppc = "done" =>
        LET n == Len(perimIn)
        IN  /\ (n >= 3 /\ perimIn[1] = perimIn[n]) =>
                    TracesInOrder(perimCmds, perimIn)
            /\ (perimIn[1] # perimIn[n]) =>
                    /\ TracesInOrder(perimCmds, Append(perimIn, perimIn[1]))
                    /\ perimCmds[n + 1] = <<perimIn[1][1], perimIn[1][2], DRAW>>

\* A closed polygon of three distinct vertices has been traced.
C2_Witness ==
    /\ ppc = "done"
    /\ Len(perimIn) = 4
    /\ perimIn[1] = perimIn[4]
    /\ Cardinality(Range(perimIn)) = 3
    /\ Len(perimCmds) = 4

-----------------------------------------------------------------------------
(* get_line_polygon_intersections, generate_cross_hatching_path            *)
(*                                                       slice.py:217, 239 *)
(*                                                                         *)
(* math.sqrt(2) is the fixed-point number 14/10, so the step of c for an   *)
(* integer spacing is spacing * 14 units.  As with the floats of the code, *)
(* a vertex can lie exactly on a hatch line.                               *)

\* math.sqrt(2) in units of 1/10.
Sqrt2Fix == 14

\* epsilon (1e-6) is below one unit: |denom| < epsilon holds for denom = 0.
HatchEps == 1

\* The largest number of points of an argument polygon.
MaxHatchLen == 4

\* The largest spacing passed.
MaxSpacing == 2

\* The number of commands that memory holds: a longer cmd_arr is a MemoryError.
MaxCmds == 12

\* Once c is this far below zero, adding the step no longer changes it
\* (the float c absorbs the step).
CAbsorb == 60

HatchCoords == {0, 6, 14}

HatchPoints == HatchCoords \X HatchCoords

HatchInputs == UNION {[1..n -> HatchPoints] : n \in 0..MaxHatchLen}

\* int(spacing) of the form value: any integer.
HatchSpacings == (-1)..MaxSpacing

RECURSIVE GCD(_, _)
GCD(a, b) == IF b = 0 THEN a ELSE GCD(b, a % b)

\* The fraction n/d (d # 0) in lowest terms with a positive denominator.
Frac(n, d) ==
    LET g == GCD(Abs(n), Abs(d))
        sgn == IF d < 0 THEN -1 ELSE 1
    IN  <<(sgn * n) \div g, (sgn * d) \div g>>

FracLess(a, b) == a[1] * b[2] < b[1] * a[2]

FracAdd(a, b) == Frac(a[1] * b[2] + b[1] * a[2], a[2] * b[2])

FracSub(a, b) == Frac(a[1] * b[2] - b[1] * a[2], a[2] * b[2])

FracMul(a, b) == Frac(a[1] * b[1], a[2] * b[2])

\* slice.py:233   0 <= t <= 1  for  t = num / denom.
OnSegment(num, denom) ==
    IF denom > 0 THEN 0 <= num /\ num <= denom
    ELSE denom <= num /\ num <= 0

\* slice.py:224-236   the intersections of the line A*x + B*y + C = 0 with
\* the edges i..n of the polygon, in the order of the edges.
RECURSIVE IntersectFrom(_, _, _, _, _)
IntersectFrom(poly, A, B, C, i) ==
    IF i > Len(poly) THEN <<>>
    ELSE
        LET p1 == poly[i]
            p2 == poly[(i % Len(poly)) + 1]
            dx == p2[1] - p1[1]
            dy == p2[2] - p1[2]
            denom == A * dx + B * dy
            num == -(A * p1[1] + B * p1[2] + C)
            rest == IntersectFrom(poly, A, B, C, i + 1)
        IN  IF Abs(denom) < HatchEps THEN rest
            ELSE IF OnSegment(num, denom)
                 THEN << <<Frac(p1[1] * denom + num * dx, denom),
                           Frac(p1[2] * denom + num * dy, denom)>> >> \o rest
                 ELSE rest

\* slice.py:217-237
get_line_polygon_intersections(poly, A, B, C) == IntersectFrom(poly, A, B, C, 1)

\* list.sort(key=lambda p: p[0]): a stable sort by x.
RECURSIVE SortByX(_)
SortByX(pts) ==
    IF pts = <<>> THEN <<>>
    ELSE
        LET last == pts[Len(pts)]
            init == SortByX(DropLast(pts))
            k == Cardinality({j \in DOMAIN init : ~FracLess(last[1], init[j][1])})
        IN  SubSeq(init, 1, k) \o <<last>> \o SubSeq(init, k + 1, Len(init))

\* slice.py:284-288   a MOVE and a DRAW for the pairs (0,1), (2,3), ... of
\* the sorted intersections, from the i-th on.
RECURSIVE PairCmds(_, _)
PairCmds(pts, i) ==
    IF i + 1 > Len(pts) THEN <<>>
    ELSE << <<pts[i][1], pts[i][2], MOVE>>, <<pts[i + 1][1], pts[i + 1][2], DRAW>> >>
         \o PairCmds(pts, i + 2)

\* slice.py:269, 292   the value of c at a point, for hatch set fam.
CValue(fam, pt) == IF fam = 1 THEN pt[1] + pt[2] ELSE pt[2] - pt[1]

CMin(fam, poly) == SetMin({CValue(fam, poly[i]) : i \in DOMAIN poly})

CMax(fam, poly) == SetMax({CValue(fam, poly[i]) : i \in DOMAIN poly})

\* slice.py:279, 299   the hatch line of set fam at c.
HatchLine(fam, poly, c) ==
    IF fam = 1 THEN get_line_polygon_intersections(poly, 1, 1, -c)
    ELSE get_line_polygon_intersections(poly, -1, 1, -c)

\* slice.py:274
HatchStep(spacing) == spacing * Sqrt2Fix

\* slice.py:289, 307   c += step
CAdd(c, step) == IF c + step < -CAbsorb THEN c ELSE c + step

HatchInit ==
    /\ hatchIn \in HatchInputs
    /\ hSpacing \in HatchSpacings
    /\ hPoly = <<>>
    /\ hFam = 1
    /\ hC = 0
    /\ hInter = <<>>
    /\ hCmds = <<>>
    /\ hpc = "start"

HatchIdle ==
    /\ hatchIn = <<>>
    /\ hSpacing = 0
    /\ hPoly = <<>>
    /\ hFam = 1
    /\ hC = 0
    /\ hInter = <<>>
    /\ hCmds = <<>>
    /\ hpc = "idle"

\* slice.py:262   polygon[0] of an empty list raises IndexError.
HatchRaise ==
    /\ hpc = "start"
    /\ hatchIn = <<>>
    /\ hpc' = "raised"
    /\ UNCHANGED <<hatchIn, hSpacing, hPoly, hFam, hC, hInter, hCmds>>
    /\ HatchFrame

\* slice.py:262-276   close the polygon in a new list; c starts at c_min.
HatchEnter ==
    /\ hpc = "start"
    /\ hatchIn # <<>>
    /\ hPoly' = EnsureClosed(hatchIn)
    /\ hC' = CMin(1, hPoly')
    /\ hpc' = "test"
    /\ UNCHANGED <<hatchIn, hSpacing, hFam, hInter, hCmds>>
    /\ HatchFrame

\* slice.py:277, 297   while c <= c_max: another hatch line.
HatchPass ==
    /\ hpc = "test"
    /\ hC <= CMax(hFam, hPoly)
    /\ hpc' = "line"
    /\ UNCHANGED <<hatchIn, hSpacing, hPoly, hFam, hC, hInter, hCmds>>
    /\ HatchFrame

\* slice.py:279-289, 299-307   the body of the loop: intersect, sort, pair
\* when there are at least two intersections, and step c.
HatchDrawLine ==
    /\ hpc = "line"
    /\ LET pts == SortByX(HatchLine(hFam, hPoly, hC))
           cmds == IF Len(pts) >= 2 THEN PairCmds(pts, 1) ELSE <<>>
       IN  /\ hInter' = pts
           /\ IF Len(hCmds) + Len(cmds) > MaxCmds
              THEN /\ hpc' = "raised"
                   /\ UNCHANGED <<hCmds, hC>>
              ELSE /\ hCmds' = hCmds \o cmds
                   /\ hC' = CAdd(hC, HatchStep(hSpacing))
                   /\ hpc' = "test"
    /\ UNCHANGED <<hatchIn, hSpacing, hPoly, hFam>>
    /\ HatchFrame

\* slice.py:292-296   the first loop is over: the second set starts.
HatchSecondSet ==
    /\ hpc = "test"
    /\ hFam = 1
    /\ hC > CMax(1, hPoly)
    /\ hFam' = 2
    /\ hC' = CMin(2, hPoly)
    /\ UNCHANGED <<hatchIn, hSpacing, hPoly, hInter, hCmds, hpc>>
    /\ HatchFrame

\* slice.py:309
HatchReturn ==
    /\ hpc = "test"
    /\ hFam = 2
    /\ hC > CMax(2, hPoly)
    /\ hpc' = "done"
    /\ UNCHANGED <<hatchIn, hSpacing, hPoly, hFam, hC, hInter, hCmds>>
    /\ HatchFrame

HatchNext ==
    \/ HatchRaise
    \/ HatchEnter
    \/ HatchPass
    \/ HatchDrawLine
    \/ HatchSecondSet
    \/ HatchReturn

-----------------------------------------------------------------------------
(* Properties of the hatch lines.                                          *)

\* The vertices of a polygon: its points without a repeated closing point.
Vertices(poly) ==
    IF Len(poly) > 1 /\ poly[1] = poly[Len(poly)] THEN DropLast(poly) ELSE poly

\* Twice the signed area of the triangle a, b, c.
Cross(a, b, c) ==
    (b[1] - a[1]) * (c[2] - a[2]) - (b[2] - a[2]) * (c[1] - a[1])

\* The polygon has at least three distinct vertices, not all on one line,
\* and every vertex lies on the same side of every edge.
IsConvex(poly) ==
    LET v == Vertices(poly)
        n == Len(v)
        side == {Cross(v[i], v[(i % n) + 1], v[j]) : i, j \in 1..n}
    IN  /\ n >= 3
        /\ Cardinality(Range(v)) = n
        /\ side # {0}
        /\ (\A x \in side : x >= 0) \/ (\A x \in side : x <= 0)

\* C3 (hatch pairing parity): for a convex polygon, every hatch line that
\* generate_cross_hatching_path visits, of either set, has 0 or 2
\* intersections, so the pairing leaves no intersection unpaired.
C3_HatchParity ==
    IsConvex(hatchIn) => Len(hInter) \in {0, 2}

\* C7 (every conversion terminates): for any polygon and any integer
\* spacing, both hatch loops finish, so the call returns or raises.
C7_HatchTerminates == <>(hpc \in {"done", "raised"})

-----------------------------------------------------------------------------
(* generate_cross_hatching_path on simple polygons.                        *)

\* The largest number of vertices of a simple polygon of the argument.
MaxShapeLen == 5

\* The spacings that the simple polygons are hatched with.
ShapeSpacings == {1, 2}

\* c lies between a and b.
Between(a, b, c) == (a <= c /\ c <= b) \/ (b <= c /\ c <= a)

\* The point p lies on the segment a-b.
OnSeg(a, b, p) ==
    Cross(a, b, p) = 0 /\ Between(a[1], b[1], p[1]) /\ Between(a[2], b[2], p[2])

\* The segments a-b and c-d have a point in common.
SegmentsMeet(a, b, c, d) ==
    \/ /\ Cross(a, b, c) * Cross(a, b, d) < 0
       /\ Cross(c, d, a) * Cross(c, d, b) < 0
    \/ OnSeg(a, b, c) \/ OnSeg(a, b, d) \/ OnSeg(c, d, a) \/ OnSeg(c, d, b)

\* The vertex list v (the first vertex not repeated) is a simple polygon:
\* distinct vertices, a corner at each of them, and no two edges that meet
\* except neighbours at their common vertex.
IsSimplePolygon(v) ==
    LET n == Len(v)
        nxt(i) == (i % n) + 1
    IN  /\ n >= 3
        /\ Cardinality(Range(v)) = n
        /\ \A i \in 1..n : Cross(v[i], v[nxt(i)], v[nxt(nxt(i))]) # 0
        /\ \A i, j \in 1..n :
              (i < j /\ nxt(i) # j /\ nxt(j) # i) =>
                  ~SegmentsMeet(v[i], v[nxt(i)], v[j], v[nxt(j)])

\* The simple polygons of at most n vertices over the points of the grid.
ShapeInputs(n) ==
    {v \in UNION {[1..k -> HatchPoints] : k \in 3..n} : IsSimplePolygon(v)}

ShapeInit ==
    /\ hatchIn \in ShapeInputs(MaxShapeLen)
    /\ hSpacing \in ShapeSpacings
    /\ hPoly = <<>>
    /\ hFam = 1
    /\ hC = 0
    /\ hInter = <<>>
    /\ hCmds = <<>>
    /\ hpc = "start"

\* The steps of a call with a polygon that is not empty.
ShapeNext ==
    \/ HatchEnter
    \/ HatchPass
    \/ HatchDrawLine
    \/ HatchSecondSet
    \/ HatchReturn

-----------------------------------------------------------------------------
(* Properties of the hatching of simple polygons.                          *)

\* The midpoint of the segment between two commands.
MidPoint(a, b) ==
    <<FracMul(FracAdd(a[1], b[1]), Frac(1, 2)),
      FracMul(FracAdd(a[2], b[2]), Frac(1, 2))>>

\* Twice the signed area of the triangle a, b, m for a point m of fractions.
CrossF(a, b, m) ==
    FracSub(FracMul(Frac(b[1] - a[1], 1), FracSub(m[2], Frac(a[2], 1))),
            FracMul(Frac(b[2] - a[2], 1), FracSub(m[1], Frac(a[1], 1))))

FracBetween(a, b, f) ==
    \/ ~FracLess(f, Frac(a, 1)) /\ ~FracLess(Frac(b, 1), f)
    \/ ~FracLess(f, Frac(b, 1)) /\ ~FracLess(Frac(a, 1), f)

\* m lies on the edge a-b.
OnEdge(a, b, m) ==
    /\ CrossF(a, b, m)[1] = 0
    /\ FracBetween(a[1], b[1], m[1])
    /\ FracBetween(a[2], b[2], m[2])

\* The ray from m towards growing x crosses the edge a-b.
RayCrosses(a, b, m) ==
    /\ FracLess(m[2], Frac(a[2], 1)) # FracLess(m[2], Frac(b[2], 1))
    /\ CrossF(a, b, m)[1] * (b[2] - a[2]) > 0

\* m lies inside the closed polygon or on its boundary.
InsideOrOn(poly, m) ==
    LET edges == 1..(Len(poly) - 1)
    IN  \/ \E i \in edges : OnEdge(poly[i], poly[i + 1], m)
        \/ Cardinality({i \in edges : RayCrosses(poly[i], poly[i + 1], m)}) % 2 = 1

\* C11 (hatching stays inside the shape): for a simple polygon, the
\* segment of every MOVE/DRAW pair that generate_cross_hatching_path has
\* emitted, for either set of hatch lines, lies inside the polygon or on
\* its boundary: no stretch of a hatch line outside the polygon is drawn.
\* Between two neighbours of the sorted intersections the hatch line does
\* not meet the boundary, so the segment lies where its midpoint lies.
C11_HatchInside ==
    \A i \in 1..(Len(hCmds) \div 2) :
        InsideOrOn(hPoly, MidPoint(hCmds[2 * i - 1], hCmds[2 * i]))

-----------------------------------------------------------------------------
(* convert_to_gcode                                           slice.py:311 *)
(*                                                                         *)
(* The coordinates of a command are fractions in units of 1/10.  A line is *)
(* <<"G1", X, Y>> or <<"G1", X, Y, E>>, its numbers integers in units of   *)
(* 1/100, as the format :.2f prints them.  No number of the model lies     *)
(* halfway between two hundredths.                                         *)

\* The largest number of commands of an argument list.
MaxGcodeLen == 3

\* (0, 0), (1.004, 0), (1.004, 2.998), (3, 4)
GcodePoints ==
    { <<Frac(0, 1), Frac(0, 1)>>,
      <<Frac(1004, 100), Frac(0, 1)>>,
      <<Frac(1004, 100), Frac(2998, 100)>>,
      <<Frac(30, 1), Frac(40, 1)>> }

GcodeCmds == {<<pt[1], pt[2], mode>> : pt \in GcodePoints, mode \in {MOVE, DRAW}}

GcodeInputs == UNION {[1..n -> GcodeCmds] : n \in 0..MaxGcodeLen}

\* The largest r in lo..hi with r * r <= n.
RECURSIVE ISqrtIn(_, _, _)
ISqrtIn(n, lo, hi) ==
    IF lo >= hi THEN lo
    ELSE LET mid == (lo + hi + 1) \div 2
         IN  IF mid * mid <= n THEN ISqrtIn(n, mid, hi) ELSE ISqrtIn(n, lo, mid - 1)

\* The integer part of the square root of n, for n below 2^30.
ISqrt(n) == ISqrtIn(n, 0, IF n < 32768 THEN n ELSE 32768)

\* format(v, '.2f'): the hundredth nearest to the fraction f of tenths.
Fmt2(f) == (20 * f[1] + f[2]) \div (2 * f[2])

\* slice.py:317   (x - prev_x)**2 + (y - prev_y)**2, a fraction of
\* hundredths (tenths squared).
Dist2(prev, cmd) ==
    LET dx == FracSub(cmd[1], prev[1])
        dy == FracSub(cmd[2], prev[2])
    IN  FracAdd(FracMul(dx, dx), FracMul(dy, dy))

\* slice.py:317, 321   format(dist / 10, '.2f') for dist = sqrt(d2) tenths:
\* dist / 10 is sqrt(d2) hundredths, printed as the nearest hundredth,
\* floor(sqrt(d2) + 1/2).
ExtrusionOf(d2) == (ISqrt((4 * d2[1]) \div d2[2]) + 1) \div 2

\* A first line that looks at the stored mode of the first command.
FirstLineByMode(cmd) ==
    IF cmd[3] = 0 THEN <<"G1", Fmt2(cmd[1]), Fmt2(cmd[2])>>
    ELSE <<"G1", Fmt2(cmd[1]), Fmt2(cmd[2]), 0>>

\* slice.py:313-314   the initial travel move.
FirstLine(cmd) == <<"G1", Fmt2(cmd[1]), Fmt2(cmd[2])>>

\* slice.py:318-321   the line of a later command.
LineOf(prev, cmd) ==
    IF cmd[3] = 0 THEN <<"G1", Fmt2(cmd[1]), Fmt2(cmd[2])>>
    ELSE <<"G1", Fmt2(cmd[1]), Fmt2(cmd[2]), ExtrusionOf(Dist2(prev, cmd))>>

\* A previous position that only follows the extrusion moves.
NextPrevDrawOnly(prev, cmd) == IF cmd[3] = 0 THEN prev ELSE <<cmd[1], cmd[2]>>

\* slice.py:322   prev_x, prev_y = x, y
NextPrev(prev, cmd) == <<cmd[1], cmd[2]>>

GcodeInit ==
    /\ gIn \in GcodeInputs
    /\ gLines = <<>>
    /\ gPrev = <<>>
    /\ gIdx = 0
    /\ gpc = "start"

GcodeIdle ==
    /\ gIn = <<>>
    /\ gLines = <<>>
    /\ gPrev = <<>>
    /\ gIdx = 0
    /\ gpc = "idle"

\* slice.py:313   coordinates[0] of an empty list raises IndexError.
GcodeRaise ==
    /\ gpc = "start"
    /\ gIn = <<>>
    /\ gpc' = "raised"
    /\ UNCHANGED <<gIn, gLines, gPrev, gIdx>>
    /\ GcodeFrame

\* slice.py:313-314
GcodeFirst ==
    /\ gpc = "start"
    /\ gIn # <<>>
    /\ gPrev' = <<gIn[1][1], gIn[1][2]>>
    /\ gLines' = <<FirstLine(gIn[1])>>
    /\ gIdx' = 2
    /\ gpc' = "loop"
    /\ UNCHANGED <<gIn>>
    /\ GcodeFrame

\* slice.py:316-322   one pass of the for loop over coordinates[1:].
GcodeLine ==
    /\ gpc = "loop"
    /\ gIdx <= Len(gIn)
    /\ gLines' = Append(gLines, LineOf(gPrev, gIn[gIdx]))
    /\ gPrev' = NextPrev(gPrev, gIn[gIdx])
    /\ gIdx' = gIdx + 1
    /\ UNCHANGED <<gIn, gpc>>
    /\ GcodeFrame

\* slice.py:324
GcodeReturn ==
    /\ gpc = "loop"
    /\ gIdx > Len(gIn)
    /\ gpc' = "done"
    /\ UNCHANGED <<gIn, gLines, gPrev, gIdx>>
    /\ GcodeFrame

GcodeNext == GcodeRaise \/ GcodeFirst \/ GcodeLine \/ GcodeReturn

-----------------------------------------------------------------------------
(* Properties of convert_to_gcode.                                         *)

\* The squared distance between the positions of the commands i - 1 and
\* i of the argument: a fraction of hundredths.
StepDist2(i) == Dist2(<<gIn[i - 1][1], gIn[i - 1][2]>>, gIn[i])

\* C4 as claimed (distance-extrusion correlation): the deposition amount on
\* the line of every DRAW command after the first equals exactly the
\* distance from the previous command's position divided by 10.
\* (E hundredths = sqrt(n/d) hundredths  iff  E * E * d = n.)
C4_ExactExtrusion ==
    \A i \in 2..Len(gLines) :
        gIn[i][3] = DRAW =>
            /\ Len(gLines[i]) = 4
            /\ gLines[i][4] * gLines[i][4] * StepDist2(i)[2] = StepDist2(i)[1]

\* C4 as amended: the deposition amount on the line of every DRAW command
\* after the first is the distance from the previous command's position
\* (MOVE or DRAW) divided by 10, rounded to two decimals: it differs from
\* distance / 10 by at most half a hundredth.
\* (|E - sqrt(n/d)| <= 1/2  iff  (2E - 1)^2 * d <= 4n <= (2E + 1)^2 * d.)
C4_RoundedExtrusion ==
    \A i \in 2..Len(gLines) :
        gIn[i][3] = DRAW =>
            /\ Len(gLines[i]) = 4
            /\ LET e == gLines[i][4]
                   n == StepDist2(i)[1]
                   d == StepDist2(i)[2]
               IN  /\ e >= 0
                   /\ 4 * n <= (2 * e + 1) * (2 * e + 1) * d
                   /\ e >= 1 => (2 * e - 1) * (2 * e - 1) * d <= 4 * n

\* A DRAW that follows a MOVE to another place has been emitted with an
\* amount that is not the exact distance / 10.
C4_Witness ==
    /\ gpc = "done"
    /\ Len(gIn) = 3
    /\ gIn[2][3] = MOVE
    /\ gIn[3][3] = DRAW
    /\ <<gIn[1][1], gIn[1][2]>> # <<gIn[2][1], gIn[2][2]>>
    /\ gLines[3][4] > 0
    /\ gLines[3][4] * gLines[3][4] * StepDist2(3)[2] # StepDist2(3)[1]

\* C9 (emitter line structure): for a non-empty command list the result
\* has one line per command, in order; the first is a positional move
\* without a deposition value whatever the first command's mode; every
\* later line carries its command's absolute coordinates (as printed, in
\* hundredths) and has a deposition value exactly when the mode is DRAW.
C9_LineStructure ==
    gpc = "done" =>
        /\ Len(gLines) = Len(gIn)
        /\ \A i \in 1..Len(gIn) :
            /\ gLines[i][1] = "G1"
            /\ gLines[i][2] = Fmt2(gIn[i][1])
            /\ gLines[i][3] = Fmt2(gIn[i][2])
            /\ Len(gLines[i]) = IF i > 1 /\ gIn[i][3] = DRAW THEN 4 ELSE 3

\* A list whose first command is stored as a DRAW, followed by a MOVE and
\* a DRAW, has been emitted.
C9_Witness ==
    /\ gpc = "done"
    /\ Len(gIn) = 3
    /\ gIn[1][3] = DRAW
    /\ gIn[2][3] = MOVE
    /\ gIn[3][3] = DRAW
    /\ Len(gLines[1]) = 3

-----------------------------------------------------------------------------
(* center_polygon                                             slice.py:158 *)
(*                                                                         *)
(* The arguments of the model are whole multiples of 2/10, so that the     *)
(* halves the code takes of them are exact.                                *)

\* PRINT_BED_X, PRINT_BED_Y: 200, in units of 1/10.
PRINT_BED_X == 2000
PRINT_BED_Y == 2000

\* The largest number of points of an argument polygon.
MaxCenterLen == 3

CenterCoords == {0, 2, 6}

CenterPoints == CenterCoords \X CenterCoords

CenterInputs == UNION {[1..n -> CenterPoints] : n \in 0..MaxCenterLen}

\* The bed sizes passed: 3 and 200.
CenterBeds == {30, PRINT_BED_X}

\* A placement that puts the lower left corner of the bounding box, not
\* its center, on the center of the bed.
center_polygon_corner(poly, bed_width, bed_height) ==
    LET min_x == SetMin({poly[i][1] : i \in DOMAIN poly})
        min_y == SetMin({poly[i][2] : i \in DOMAIN poly})
        offset_x == (bed_width \div 2) - min_x
        offset_y == (bed_height \div 2) - min_y
    IN  [i \in DOMAIN poly |-> <<poly[i][1] + offset_x, poly[i][2] + offset_y>>]

\* slice.py:170-191   for a non-empty polygon.
center_polygon(poly, bed_width, bed_height) ==
    LET min_x == SetMin({poly[i][1] : i \in DOMAIN poly})
        max_x == SetMax({poly[i][1] : i \in DOMAIN poly})
        min_y == SetMin({poly[i][2] : i \in DOMAIN poly})
        max_y == SetMax({poly[i][2] : i \in DOMAIN poly})
        poly_center_x == (min_x + max_x) \div 2
        poly_center_y == (min_y + max_y) \div 2
        bed_center_x == bed_width \div 2
        bed_center_y == bed_height \div 2
        offset_x == bed_center_x - poly_center_x
        offset_y == bed_center_y - poly_center_y
    IN  [i \in DOMAIN poly |-> <<poly[i][1] + offset_x, poly[i][2] + offset_y>>]

CenterInit ==
    /\ cIn \in CenterInputs
    /\ cBedW \in CenterBeds
    /\ cBedH \in CenterBeds
    /\ cOut = <<>>
    /\ cOut2 = <<>>
    /\ cpc = "start"

CenterIdle ==
    /\ cIn = <<>>
    /\ cBedW = 0
    /\ cBedH = 0
    /\ cOut = <<>>
    /\ cOut2 = <<>>
    /\ cpc = "idle"

\* slice.py:171   min() of an empty sequence raises ValueError.
CenterRaise ==
    /\ cpc = "start"
    /\ cIn = <<>>
    /\ cpc' = "raised"
    /\ UNCHANGED <<cIn, cBedW, cBedH, cOut, cOut2>>
    /\ CenterFrame

\* slice.py:158-191
CenterCall ==
    /\ cpc = "start"
    /\ cIn # <<>>
    /\ cOut' = center_polygon(cIn, cBedW, cBedH)
    /\ cpc' = "once"
    /\ UNCHANGED <<cIn, cBedW, cBedH, cOut2>>
    /\ CenterFrame

\* slice.py:158-191   the function applied to the polygon it returned.
CenterAgain ==
    /\ cpc = "once"
    /\ cOut2' = center_polygon(cOut, cBedW, cBedH)
    /\ cpc' = "twice"
    /\ UNCHANGED <<cIn, cBedW, cBedH, cOut>>
    /\ CenterFrame

CenterNext == CenterRaise \/ CenterCall \/ CenterAgain

-----------------------------------------------------------------------------
(* Properties of center_polygon.                                           *)

\* Twice the center of the bounding box of a polygon.
BoxCenter2(poly) ==
    << SetMin({poly[i][1] : i \in DOMAIN poly}) + SetMax({poly[i][1] : i \in DOMAIN poly}),
       SetMin({poly[i][2] : i \in DOMAIN poly}) + SetMax({poly[i][2] : i \in DOMAIN poly}) >>

\* C5 (centering): for a non-empty polygon and any bed size the result has
\* the length of the argument, is the argument moved by one common offset,
\* and the center of its bounding box is (bed_width/2, bed_height/2);
\* centering the result again returns the same points.
C5_Centering ==
    /\ cpc \in {"once", "twice"} =>
        /\ Len(cOut) = Len(cIn)
        /\ \A i \in DOMAIN cIn :
            /\ cOut[i][1] - cIn[i][1] = cOut[1][1] - cIn[1][1]
            /\ cOut[i][2] - cIn[i][2] = cOut[1][2] - cIn[1][2]
        /\ BoxCenter2(cOut) = <<cBedW, cBedH>>
    /\ cpc = "twice" => cOut2 = cOut

\* A triangle that was off center has been centered twice.
C5_Witness ==
    /\ cpc = "twice"
    /\ Cardinality(Range(cIn)) = 3
    /\ cOut # cIn
    /\ BoxCenter2(cIn) # <<cBedW, cBedH>>

-----------------------------------------------------------------------------
(* read_dxf_polygon                                            slice.py:99 *)
(*                                                                         *)
(* An entity is what the ezdxf reader gives for it: its dxftype, its       *)
(* is_closed flag (which the code reads on LWPOLYLINE and POLYLINE only)   *)
(* and its points, already flattened for the curves.                       *)

\* The largest number of entities of a drawing.
MaxEntities == 3

Entity(type, closed, pts) == [type |-> type, closed |-> closed, pts |-> pts]

\* The entities a drawing of the model is made of.
EntityKinds ==
    { Entity("LWPOLYLINE", TRUE, << <<0, 0>>, <<6, 0>>, <<6, 6>>, <<0, 6>> >>),
      Entity("LWPOLYLINE", TRUE, <<>>),
      Entity("LWPOLYLINE", FALSE, << <<0, 0>>, <<6, 0>>, <<0, 6>> >>),
      Entity("POLYLINE", TRUE, << <<0, 0>>, <<6, 0>>, <<0, 6>> >>),
      Entity("POLYLINE", FALSE, << <<0, 0>>, <<6, 0>> >>),
      Entity("LINE", FALSE, << <<0, 0>>, <<6, 0>> >>),
      Entity("LINE", FALSE, << <<6, 0>>, <<0, 6>> >>),
      Entity("LINE", FALSE, << <<0, 0>>, <<0, 6>> >>),
      Entity("SPLINE", FALSE, << <<6, 0>>, <<6, 6>>, <<0, 6>> >>),
      Entity("ARC", FALSE, << <<6, 6>>, <<2, 6>>, <<0, 6>> >>),
      Entity("CIRCLE", FALSE, << <<6, 2>>, <<2, 6>>, <<0, 2>>, <<2, 0>>, <<6, 2>> >>),
      Entity("ELLIPSE", FALSE, << <<6, 2>>, <<2, 2>>, <<6, 2>> >>),
      Entity("TEXT", FALSE, <<>>) }

ReadInputs == UNION {[1..n -> EntityKinds] : n \in 0..MaxEntities}

\* slice.py:117-124   a closed LWPOLYLINE or POLYLINE is returned at once.
ReturnsAtOnce(e) ==
    \/ e.type = "LWPOLYLINE" /\ e.closed
    \/ e.type = "POLYLINE" /\ e.closed

\* slice.py:125-138   the entities whose points are appended to lines.
IsSegment(e) == e.type \in {"LINE", "SPLINE", "CIRCLE", "ARC", "ELLIPSE"}

ReadInit ==
    /\ rEntities \in ReadInputs
    /\ rIdx = 1
    /\ rLines = <<>>
    /\ rResult = <<>>
    /\ rpc = "loop"

ReadIdle ==
    /\ rEntities = <<>>
    /\ rIdx = 1
    /\ rLines = <<>>
    /\ rResult = <<>>
    /\ rpc = "idle"

\* slice.py:115-124   the loop meets a closed polyline and returns its points.
ReadClosed ==
    /\ rpc = "loop"
    /\ rIdx <= Len(rEntities)
    /\ ReturnsAtOnce(rEntities[rIdx])
    /\ rResult' = rEntities[rIdx].pts
    /\ rpc' = "returned"
    /\ UNCHANGED <<rEntities, rIdx, rLines>>
    /\ ReadFrame

\* slice.py:115-138   one pass of the loop over any other entity: the
\* points of a line or a flattened curve are appended to lines, an open
\* polyline and an entity of another type are passed over.
ReadCollect ==
    /\ rpc = "loop"
    /\ rIdx <= Len(rEntities)
    /\ ~ReturnsAtOnce(rEntities[rIdx])
    /\ rLines' = IF IsSegment(rEntities[rIdx])
                 THEN Append(rLines, rEntities[rIdx].pts)
                 ELSE rLines
    /\ rIdx' = rIdx + 1
    /\ UNCHANGED <<rEntities, rResult, rpc>>
    /\ ReadFrame

\* slice.py:140-141   combine_segments_to_polygon(lines) is called.
ReadStitchCall ==
    /\ rpc = "loop"
    /\ rIdx > Len(rEntities)
    /\ rLines # <<>>
    /\ rpc' = "stitching"
    /\ stitchIn' = rLines
    /\ segments' = rLines
    /\ segs' = <<>>
    /\ polygon' = <<>>
    /\ aliased' = FALSE
    /\ spc' = "start"
    /\ UNCHANGED <<stitchCalls, stitchFirst>>
    /\ UNCHANGED <<rEntities, rIdx, rLines, rResult>>
    /\ UNCHANGED <<perimVars, hatchVars, gcodeVars, centerVars, sliceVars,
                   appVars>>

\* slice.py:141   the stitched polygon is returned; lines is the list that
\* the call has worked on.
ReadStitchReturn ==
    /\ rpc = "stitching"
    /\ spc = "done"
    /\ rResult' = polygon
    /\ rLines' = segments
    /\ rpc' = "returned"
    /\ UNCHANGED <<rEntities, rIdx>>
    /\ ReadFrame

\* slice.py:143   raise ValueError("No valid polygon shapes found ...")
ReadNoShape ==
    /\ rpc = "loop"
    /\ rIdx > Len(rEntities)
    /\ rLines = <<>>
    /\ rpc' = "raised"
    /\ UNCHANGED <<rEntities, rIdx, rLines, rResult>>
    /\ ReadFrame

ReadNext ==
    \/ ReadClosed
    \/ ReadCollect
    \/ ReadStitchCall
    \/ ReadStitchReturn
    \/ ReadNoShape
    \/ StitchCall
    \/ StitchConnect
    \/ StitchBreak
    \/ StitchReturn

-----------------------------------------------------------------------------
(* Properties of read_dxf_polygon.                                         *)

\* A closed primitive: a polyline that is closed, or a circle.
IsClosedPrimitive(e) == e.closed \/ e.type = "CIRCLE"

ClosedPrimitives == {i \in DOMAIN rEntities : IsClosedPrimitive(rEntities[i])}

ClosedPolylines == {i \in DOMAIN rEntities : rEntities[i].closed}

\* With `closed` the set of the indices of the closed primitives: the loop
\* never gets past the first of them, stitching is never run, and what is
\* returned is the point list of that primitive, unchanged.
ShortCircuit(closed) ==
    closed # {} =>
        /\ spc = "idle"
        /\ rpc \in {"loop", "returned"}
        /\ rpc = "loop" => rIdx <= SetMin(closed)
        /\ rpc = "returned" => rResult = rEntities[SetMin(closed)].pts

\* C6 (closed-primitive short-circuit): whenever the drawing holds a closed
\* primitive (a closed polyline or a circle), read_dxf_polygon returns the
\* point list of that closed primitive unchanged, without running
\* stitching and whatever comes before or after it.
C6_ClosedShortCircuit == ShortCircuit(ClosedPrimitives)

\* The same for the closed polylines alone, which is what the code does.
ClosedPolylineShortCircuit == ShortCircuit(ClosedPolylines)

-----------------------------------------------------------------------------
(* slice_dxf                                                  slice.py:451 *)
(*                                                                         *)
(* The steps of slice_dxf call the functions above in turn; each call      *)
(* loads the arguments of the function and its steps then run.  The file   *)
(* is what ezdxf reads from it.  export_visualization writes the picture   *)
(* and leaves the data alone.                                              *)

\* The values of `spacing` that slice_dxf is called with here.
SliceSpacings == {0, 10}

SliceFiles ==
    {[exists |-> TRUE, msp |-> m] : m \in ReadInputs}
        \cup {[exists |-> FALSE, msp |-> <<>>]}

\* slice.py:143   the class of the exception of a drawing without shapes.
NoGeometryFound == "ValueError"

\* A command over integer coordinates as a command over fractions.
ToFracCmd(c) == <<Frac(c[1], 1), Frac(c[2], 1), c[3]>>

ToFracCmds(cmds) == [i \in DOMAIN cmds |-> ToFracCmd(cmds[i])]

SliceInit ==
    /\ slFile \in SliceFiles
    /\ slSpacing \in SliceSpacings
    /\ slShape = <<>>
    /\ slCmds = <<>>
    /\ slGcode = <<>>
    /\ slErr = "none"
    /\ slpc = "start"

SliceIdle ==
    /\ slFile = [exists |-> FALSE, msp |-> <<>>]
    /\ slSpacing = 0
    /\ slShape = <<>>
    /\ slCmds = <<>>
    /\ slGcode = <<>>
    /\ slErr = "none"
    /\ slpc = "idle"

\* slice.py:452-454   raise FileNotFoundError
SliceBadPath ==
    /\ slpc = "start"
    /\ ~slFile.exists
    /\ slErr' = "FileNotFoundError"
    /\ slpc' = "raised"
    /\ UNCHANGED <<slFile, slSpacing, slShape, slCmds, slGcode>>
    /\ SliceFrame

\* slice.py:457, 109-113   read_dxf_polygon(path) is called.
SliceRead ==
    /\ slpc = "start"
    /\ slFile.exists
    /\ rEntities' = slFile.msp
    /\ rIdx' = 1
    /\ rLines' = <<>>
    /\ rResult' = <<>>
    /\ rpc' = "loop"
    /\ slpc' = "read"
    /\ UNCHANGED <<slFile, slSpacing, slShape, slCmds, slGcode, slErr>>
    /\ UNCHANGED <<stitchVars, perimVars, hatchVars, gcodeVars, centerVars,
                   appVars>>

\* slice.py:457   the ValueError of read_dxf_polygon leaves slice_dxf.
SliceReadRaised ==
    /\ slpc = "read"
    /\ rpc = "raised"
    /\ slErr' = NoGeometryFound
    /\ slpc' = "raised"
    /\ UNCHANGED <<slFile, slSpacing, slShape, slCmds, slGcode>>
    /\ SliceFrame

\* slice.py:458, 171   min() of an empty polygon raises ValueError.
SliceCenterRaised ==
    /\ slpc = "read"
    /\ rpc = "returned"
    /\ rResult = <<>>
    /\ slErr' = "ValueError"
    /\ slpc' = "raised"
    /\ UNCHANGED <<slFile, slSpacing, slShape, slCmds, slGcode>>
    /\ SliceFrame

\* slice.py:458-459   shape = center_polygon(...); generate_perimeter_path
\* is called with shape itself.
SliceCenter ==
    /\ slpc = "read"
    /\ rpc = "returned"
    /\ rResult # <<>>
    /\ slShape' = center_polygon(rResult, PRINT_BED_X, PRINT_BED_Y)
    /\ perimIn' = slShape'
    /\ perimPoly' = slShape'
    /\ perimCmds' = <<>>
    /\ perimIdx' = 0
    /\ ppc' = "start"
    /\ slpc' = "perimeter"
    /\ UNCHANGED <<slFile, slSpacing, slCmds, slGcode, slErr>>
    /\ UNCHANGED <<stitchVars, hatchVars, gcodeVars, centerVars, readVars,
                   appVars>>

\* slice.py:459-460   cmd_arr is the perimeter; shape is the list that the
\* perimeter builder has closed; generate_cross_hatching_path is called.
SliceHatch ==
    /\ slpc = "perimeter"
    /\ ppc = "done"
    /\ slCmds' = ToFracCmds(perimCmds)
    /\ slShape' = perimPoly
    /\ hatchIn' = perimPoly
    /\ hSpacing' = slSpacing
    /\ hPoly' = <<>>
    /\ hFam' = 1
    /\ hC' = 0
    /\ hInter' = <<>>
    /\ hCmds' = <<>>
    /\ hpc' = "start"
    /\ slpc' = "hatch"
    /\ UNCHANGED <<slFile, slSpacing, slGcode, slErr>>
    /\ UNCHANGED <<stitchVars, perimVars, gcodeVars, centerVars, readVars,
                   appVars>>

\* slice.py:460   the MemoryError of the infill leaves slice_dxf.
SliceHatchRaised ==
    /\ slpc = "hatch"
    /\ hpc = "raised"
    /\ slErr' = "MemoryError"
    /\ slpc' = "raised"
    /\ UNCHANGED <<slFile, slSpacing, slShape, slCmds, slGcode>>
    /\ SliceFrame

\* slice.py:460-462   cmd_arr.extend(...); convert_to_gcode is called.
SliceGcode ==
    /\ slpc = "hatch"
    /\ hpc = "done"
    /\ slCmds' = slCmds \o hCmds
    /\ gIn' = slCmds'
    /\ gLines' = <<>>
    /\ gPrev' = <<>>
    /\ gIdx' = 0
    /\ gpc' = "start"
    /\ slpc' = "gcode"
    /\ UNCHANGED <<slFile, slSpacing, slShape, slGcode, slErr>>
    /\ UNCHANGED <<stitchVars, perimVars, hatchVars, centerVars, readVars,
                   appVars>>

\* slice.py:462-469   the lines are returned.
SliceReturn ==
    /\ slpc = "gcode"
    /\ gpc = "done"
    /\ slGcode' = gLines
    /\ slpc' = "returned"
    /\ UNCHANGED <<slFile, slSpacing, slShape, slCmds, slErr>>
    /\ SliceFrame

\* The steps of a call of slice_dxf.  center_polygon has raised for an
\* empty polygon before the later functions are called, so their steps
\* for an empty argument are not steps of slice_dxf.
SliceNext ==
    \/ SliceBadPath
    \/ SliceRead
    \/ SliceReadRaised
    \/ SliceCenterRaised
    \/ SliceCenter
    \/ SliceHatch
    \/ SliceHatchRaised
    \/ SliceGcode
    \/ SliceReturn
    \/ ReadClosed
    \/ ReadCollect
    \/ ReadStitchCall
    \/ ReadStitchReturn
    \/ ReadNoShape
    \/ StitchCall
    \/ StitchConnect
    \/ StitchBreak
    \/ StitchReturn
    \/ PerimClose
    \/ PerimFirst
    \/ PerimDraw
    \/ PerimReturn
    \/ HatchEnter
    \/ HatchPass
    \/ HatchDrawLine
    \/ HatchSecondSet
    \/ HatchReturn
    \/ GcodeFirst
    \/ GcodeLine
    \/ GcodeReturn

-----------------------------------------------------------------------------
(* Properties of slice_dxf.                                                *)

\* The polygon is empty, has fewer than three distinct vertices, or has a
\* bounding box without area.
InvalidPolygon(poly) ==
    \/ poly = <<>>
    \/ Cardinality(Range(poly)) < 3
    \/ Cardinality({poly[i][1] : i \in DOMAIN poly}) = 1
    \/ Cardinality({poly[i][2] : i \in DOMAIN poly}) = 1

\* C8 (invalid polygons are rejected): a call of slice_dxf whose polygon,
\* as read and handed to center_polygon, is invalid ends by raising an
\* exception that is not the one of a drawing without shapes, and returns
\* no lines.
C8_InvalidRejected ==
    (slpc \in {"returned", "raised"} /\ rpc = "returned"
        /\ InvalidPolygon(rResult)) =>
            /\ slpc = "raised"
            /\ slErr # NoGeometryFound
            /\ slGcode = <<>>

\* No function of the pipeline is entered with an empty argument.
SliceArgumentsNonEmpty ==
    /\ ppc = "start" => perimPoly # <<>>
    /\ hpc = "start" => hatchIn # <<>>
    /\ gpc = "start" => gIn # <<>>

-----------------------------------------------------------------------------
(* index, download_file                                       app.py:19, 61 *)
(*                                                                         *)
(* A file name is the sequence of its parts, each extension a part of its  *)
(* own, so that "a.dxf" is <<"a", ".dxf">>.  None and the missing file of  *)
(* a request are the empty sequence.  slice_dxf is taken by its result: a  *)
(* text that depends on the content of the file and on the spacing, or an  *)
(* exception.                                                              *)

DxfNames == {<<"a", ".dxf">>, <<"b", ".dxf">>, <<"c", ".dxf", ".dxf">>}

\* request.files.get('file').filename, <<>> for a request without a file.
UploadNames == DxfNames \cup {<<"notes", ".txt">>, <<>>}

\* The contents of an uploaded file: two drawings, and one without shapes.
Contents == {"sq", "tri", "bad"}

\* request.form.get('spacing', '10')
SpacingTexts == {"10", "abc"}

\* str.endswith
endswith(name, ext) == name # <<>> /\ name[Len(name)] = ext

\* str.replace(old, new): every occurrence is replaced.
replace(name, old, new) ==
    [i \in DOMAIN name |-> IF name[i] = old THEN new ELSE name[i]]

GcodeNames == {replace(n, ".dxf", ".gcode") : n \in DxfNames}

\* f"Error running script: {str(e)}"
ErrorText(e) == <<"Error running script", e>>

\* The text slice_dxf returns for a drawing.
GcodeText(content, spacing) == <<"G1", content, spacing>>

\* app.py:40-51   the try block of index for the file at file_path, the
\* local `filename` and the spacing of the form: the output, the filename
\* of the response, what slice_dxf has returned, and whether the output
\* has been saved under that filename.
TryBlock(file_path, filename, spacing, uploads) ==
    IF spacing # "10"
    THEN [output |-> ErrorText("ValueError"), filename |-> filename,
          sliced |-> <<>>, saved |-> FALSE]
    ELSE IF uploads[file_path] = "none"
    THEN [output |-> ErrorText("FileNotFoundError"), filename |-> filename,
          sliced |-> <<>>, saved |-> FALSE]
    ELSE IF uploads[file_path] = "bad"
    THEN [output |-> ErrorText("ValueError"), filename |-> filename,
          sliced |-> <<>>, saved |-> FALSE]
    ELSE IF filename = <<>>
    THEN [output |-> ErrorText("AttributeError"), filename |-> filename,
          sliced |-> GcodeText(uploads[file_path], spacing), saved |-> FALSE]
    ELSE [output |-> GcodeText(uploads[file_path], spacing),
          filename |-> replace(filename, ".dxf", ".gcode"),
          sliced |-> GcodeText(uploads[file_path], spacing), saved |-> TRUE]

\* app.py:53-57   the response of a request that has run the try block.
Rendered(file_path, r) ==
    [kind |-> "result", output |-> r.output, filename |-> r.filename,
     sliced |-> r.sliced, path |-> file_path]

\* A response without output and filename.
EmptyPage(kind) ==
    [kind |-> kind, output |-> <<>>, filename |-> <<>>, sliced |-> <<>>,
     path |-> <<>>]

Saved(temp, r) ==
    IF r.saved THEN [temp EXCEPT ![r.filename] = r.output] ELSE temp

AppInit ==
    /\ aSession = <<>>
    /\ aUploads = [n \in DxfNames |-> "none"]
    /\ aTemp = [n \in GcodeNames |-> <<>>]
    /\ aLast = EmptyPage("none")

\* app.py:59   GET
AppGet ==
    /\ aLast' = EmptyPage("page")
    /\ UNCHANGED <<aSession, aUploads, aTemp>>
    /\ AppFrame

\* app.py:22-32, 38-57   POST with a file whose name ends with .dxf: the
\* file is saved, the session takes its name, and the try block runs with
\* the filename read from the session at the start of the request.
AppPostUpload ==
    \E name \in UploadNames, content \in Contents, spacing \in SpacingTexts :
        /\ endswith(name, ".dxf")
        /\ aUploads' = [aUploads EXCEPT ![name] = content]
        /\ aSession' = name
        /\ LET r == TryBlock(name, aSession, spacing, aUploads')
           IN  /\ aTemp' = Saved(aTemp, r)
               /\ aLast' = Rendered(name, r)
        /\ AppFrame

\* app.py:22-28, 33-34, 38-57   POST without such a file in a session that
\* has a filename: the file of the session is converted again.
AppPostReuse ==
    \E name \in UploadNames, spacing \in SpacingTexts :
        /\ ~endswith(name, ".dxf")
        /\ aSession # <<>>
        /\ LET r == TryBlock(aSession, aSession, spacing, aUploads)
           IN  /\ aTemp' = Saved(aTemp, r)
               /\ aLast' = Rendered(aSession, r)
        /\ UNCHANGED <<aSession, aUploads>>
        /\ AppFrame

\* app.py:22-28, 35-36   POST without such a file and without a filename
\* in the session.
AppPostNothing ==
    \E name \in UploadNames :
        /\ ~endswith(name, ".dxf")
        /\ aSession = <<>>
        /\ aLast' = EmptyPage("page")
        /\ UNCHANGED <<aSession, aUploads, aTemp>>
        /\ AppFrame

\* app.py:61-73   the saved text of the name, or 404.
AppDownload ==
    \E name \in GcodeNames :
        /\ aLast' = [kind |-> "download", output |-> aTemp[name],
                     filename |-> name, sliced |-> <<>>, path |-> <<>>]
        /\ UNCHANGED <<aSession, aUploads, aTemp>>
        /\ AppFrame

AppNext ==
    \/ AppGet
    \/ AppPostUpload
    \/ AppPostReuse
    \/ AppPostNothing
    \/ AppDownload

-----------------------------------------------------------------------------
(* Properties of index.                                                    *)

\* The name with its last part, the extension, replaced by .gcode.
WithGcodeExtension(name) == [name EXCEPT ![Len(name)] = ".gcode"]

\* C10 (derived output filename): every response to a POST whose
\* conversion has succeeded (slice_dxf has returned the lines) carries
\* those lines as its output, carries as filename the name of the file
\* that the request has converted with its extension replaced by .gcode,
\* and the lines are saved under that name.
C10_DerivedFilename ==
    (aLast.kind = "result" /\ aLast.sliced # <<>>) =>
        /\ aLast.output = aLast.sliced
        /\ aLast.filename = WithGcodeExtension(aLast.path)
        /\ aLast.filename \in DOMAIN aTemp
        /\ aTemp[aLast.filename] = aLast.sliced

-----------------------------------------------------------------------------
(* The specifications.                                                     *)

InitStitch ==
    StitchInit /\ PerimIdle /\ HatchIdle /\ GcodeIdle /\ CenterIdle
        /\ ReadIdle /\ SliceIdle /\ AppInit

SpecStitch == InitStitch /\ [][StitchNext]_vars

SpecStitchTwice == InitStitch /\ [][StitchTwiceNext]_vars

InitPerim ==
    PerimInit /\ StitchIdle /\ HatchIdle /\ GcodeIdle /\ CenterIdle
        /\ ReadIdle /\ SliceIdle /\ AppInit

SpecPerim == InitPerim /\ [][PerimNext]_vars

InitHatch ==
    HatchInit /\ StitchIdle /\ PerimIdle /\ GcodeIdle /\ CenterIdle
        /\ ReadIdle /\ SliceIdle /\ AppInit

SpecHatch == InitHatch /\ [][HatchNext]_vars

InitGcode ==
    GcodeInit /\ StitchIdle /\ PerimIdle /\ HatchIdle /\ CenterIdle
        /\ ReadIdle /\ SliceIdle /\ AppInit

SpecGcode == InitGcode /\ [][GcodeNext]_vars

InitShape ==
    ShapeInit /\ StitchIdle /\ PerimIdle /\ GcodeIdle /\ CenterIdle
        /\ ReadIdle /\ SliceIdle /\ AppInit

SpecShape == InitShape /\ [][ShapeNext]_vars

InitCenter ==
    CenterInit /\ StitchIdle /\ PerimIdle /\ HatchIdle /\ GcodeIdle
        /\ ReadIdle /\ SliceIdle /\ AppInit

SpecCenter == InitCenter /\ [][CenterNext]_vars

InitRead ==
    ReadInit /\ StitchIdle /\ PerimIdle /\ HatchIdle /\ GcodeIdle
        /\ CenterIdle /\ SliceIdle /\ AppInit

SpecRead == InitRead /\ [][ReadNext]_vars

InitSlice ==
    SliceInit /\ StitchIdle /\ PerimIdle /\ HatchIdle /\ GcodeIdle
        /\ CenterIdle /\ ReadIdle /\ AppInit

SpecSlice == InitSlice /\ [][SliceNext]_vars

InitApp ==
    AppInit /\ StitchIdle /\ PerimIdle /\ HatchIdle /\ GcodeIdle
        /\ CenterIdle /\ ReadIdle /\ SliceIdle

SpecApp == InitApp /\ [][AppNext]_vars

\* The interpreter runs the next step of a call whenever there is one.
SpecHatchLive == SpecHatch /\ WF_vars(HatchNext)

=============================================================================
